---- MODULE Spec2Model ----
(***************************************************************************)
(* A model of the recording firmware in avicam2.0.ino: the recording       *)
(* session (startRecording, stopRecording, captureFrame), the AVI header   *)
(* writer and patcher (writeAVIHeader, updateAVIHeader), the trigger poll  *)
(* and the HTTP handlers, all run from the single loop().                  *)
(*                                                                         *)
(* The SD card and the camera are the environment.  Every storage call     *)
(* whose result the code tests takes its result from an environment record *)
(* chosen with \E, so a call can fail at every place where the code looks  *)
(* at its result.                                                          *)
(***************************************************************************)
EXTENDS Integers, Sequences, FiniteSets, TLC

----------------------------------------------------------------------------
(* Program constants *)

AVI_HEADER_SIZE == 512
HIGH == 1
LOW == 0
FlushEvery == 10
StreamFrames == 100
\* a uint32_t is kept as its two 16-bit halves
HalfWord == 65536

\* the three header fields that updateAVIHeader patches
RiffSizeOff == 4
TotalFramesOff == 48
StrhLengthOff == 136
PatchOffsets == {RiffSizeOff, TotalFramesOff, StrhLengthOff}

----------------------------------------------------------------------------
(* Bounds of the model *)

\* number of distinct millis() readings startRecording can take
MaxMillis == 2
\* frames one session can append
MaxFrames == 2
\* calls in one run during which the card fails
MaxFaults == 1

\* the same three bounds for the runs that follow one session, on a card
\* that does not fail, far enough to reach the periodic flush
FlushMillis == 1
FlushFrames == 11
FlushFaults == 0

\* lengths of the frames the camera delivers (0 is the empty frame)
FrameLens == {300}
\* bytes a short header write gets onto the card
ShortHeaderWrites == {100}

----------------------------------------------------------------------------
(* Contents of a file on the card.  A 4-byte field holds a 32-bit value,   *)
(* or Hole when no byte was ever written there, or Opaque when it holds    *)
(* bytes that are not a header field (frame data, or a torn write).        *)

Hole == [k |-> "hole", hi |-> 0, lo |-> 0]
Opaque == [k |-> "opaque", hi |-> 0, lo |-> 0]

\* the uint32_t that x is cut down to when it is stored in 32 bits
U32(x) ==
  [k |-> "val", hi |-> (x \div HalfWord) % HalfWord, lo |-> x % HalfWord]

Names == 1..MaxMillis
NoName == 0

NoFile ==
  [exists |-> FALSE, size |-> 0, fld |-> [o \in PatchOffsets |-> Hole],
   hdr |-> 0, payloads |-> 0]

\* SD_MMC.open(path, FILE_WRITE) creates the file or truncates it
EmptyFile ==
  [exists |-> TRUE, size |-> 0, fld |-> [o \in PatchOffsets |-> Hole],
   hdr |-> 0, payloads |-> 0]

ClosedHandle == [open |-> FALSE, name |-> NoName, pos |-> 0]

Max(a, b) == IF a >= b THEN a ELSE b

\* File::write of n bytes at offset pos; vals gives the value a patched
\* field takes when the write covers it whole.  kind is "header", "frame"
\* or "patch".
WriteAt(f, pos, n, vals, kind) ==
  IF n = 0 \/ ~f.exists THEN f
  ELSE
    [exists |-> TRUE,
     size |-> Max(f.size, pos + n),
     fld |-> [o \in PatchOffsets |->
                IF pos <= o /\ o + 4 <= pos + n THEN vals[o]
                ELSE IF pos < o + 4 /\ o < pos + n THEN Opaque
                ELSE f.fld[o]],
     hdr |-> IF kind = "header" /\ pos = 0 THEN n
             ELSE IF kind = "frame" /\ pos < f.hdr THEN pos
             ELSE f.hdr,
     payloads |-> f.payloads]

----------------------------------------------------------------------------
(* The machine: the globals of the sketch, the card, the camera's buffer   *)
(* pool, and tr, the record of what the running call has done so far.      *)

VARIABLES
  isRecording,       \* bool isRecording
  cameraInitialized, \* bool cameraInitialized
  videoFile,         \* File videoFile: open or not, the file it names, position
  frameCount,        \* unsigned long frameCount
  startTime,         \* unsigned long startTime
  currentVideoName,  \* String currentVideoName, as the millis() value in it
  lastTriggerState,  \* static int lastTriggerState of loop()
  files,             \* the card: file contents by name
  millis,            \* the last millis() value startRecording has read
  outstanding,       \* camera buffers handed out and not yet returned
  pc,                \* the step loop() is about to take
  call,              \* the call the last step made, and what it did
  sess,              \* the current session: full writes, their bytes, faults
  faults,            \* calls so far during which the card failed
  limits             \* the bounds of the run: millis, frames, faults

vars ==
  <<isRecording, cameraInitialized, videoFile, frameCount, startTime,
    currentVideoName, lastTriggerState, files, millis, outstanding, pc, call,
    sess, faults, limits>>

NoTrace ==
  [io |-> 0, faults |-> 0, hdr |-> "none", patch |-> "none", fb |-> "none",
   wrote |-> 0, short |-> FALSE, recreated |-> FALSE, closed |-> FALSE,
   flushed |-> FALSE, steps |-> <<>>]

\* the machine at the start of a call
M ==
  [isRecording |-> isRecording, videoFile |-> videoFile,
   frameCount |-> frameCount, startTime |-> startTime,
   currentVideoName |-> currentVideoName, files |-> files, millis |-> millis,
   outstanding |-> outstanding, tr |-> NoTrace]

\* one call into SD_MMC or File
Touch(m) == [m EXCEPT !.tr.io = @ + 1]

\* a storage call that failed
Fault(m) == [m EXCEPT !.tr.io = @ + 1, !.tr.faults = @ + 1]

\* videoFile.flush()
Flush(m) == [Touch(m) EXCEPT !.tr.flushed = TRUE]

\* SD_MMC.exists(path)
Exists(m, name) == name \in Names /\ m.files[name].exists

\* if (SD_MMC.exists(name)) SD_MMC.remove(name)
RemoveIfExists(m, name) ==
  IF Exists(m, name)
    THEN [Touch(Touch(m)) EXCEPT !.files[name] = NoFile]
    ELSE Touch(m)

\* File tempFile = SD_MMC.open(name, FILE_WRITE); tempFile.close()
CreateEmpty(m, name) == [Touch(Touch(m)) EXCEPT !.files[name] = EmptyFile]

\* videoFile = SD_MMC.open(name, FILE_WRITE), succeeding
OpenVideoFile(m, name) ==
  [Touch(m) EXCEPT !.files[name] = EmptyFile,
                   !.videoFile = [open |-> TRUE, name |-> name, pos |-> 0]]

\* videoFile = SD_MMC.open(name, FILE_WRITE), failing: an invalid File
OpenVideoFileFails(m) == [Fault(m) EXCEPT !.videoFile = ClosedHandle]

\* videoFile.close()
CloseVideoFile(m) ==
  [Touch(m) EXCEPT !.videoFile = ClosedHandle, !.tr.closed = TRUE,
                   !.tr.steps = Append(@, "close")]

\* videoFile.size()
SizeOfVideoFile(m) ==
  IF m.videoFile.open /\ Exists(m, m.videoFile.name)
    THEN m.files[m.videoFile.name].size
    ELSE 0

\* videoFile.seek(pos)
SeekVideoFile(m, pos) == [Touch(m) EXCEPT !.videoFile.pos = pos]

\* videoFile.write(buf, n) putting n bytes on the card
WriteVideoFile(m, n, vals, kind) ==
  LET h == m.videoFile IN
  IF ~h.open \/ h.name \notin Names THEN Touch(m)
  ELSE [Touch(m) EXCEPT
          !.files[h.name] = WriteAt(@, h.pos, n, vals, kind),
          !.videoFile.pos = @ + n]

----------------------------------------------------------------------------
(* What the card and the camera answer during one call.  TRUE is the       *)
(* answer of a healthy card.  An answer the call never asks for is TRUE.   *)

AllTrue(e, fs) == \A f \in fs : e[f]

StartAnswers ==
  [card : BOOLEAN,      \* SD_MMC.cardType() != CARD_NONE
   testOpen : BOOLEAN,  \* SD_MMC.open("/test.txt", FILE_WRITE)
   tempOpen : BOOLEAN,  \* File tempFile = SD_MMC.open(currentVideoName, ..)
   vidOpen : BOOLEAN,   \* videoFile = SD_MMC.open(currentVideoName, ..)
   avail : BOOLEAN,     \* videoFile.availableForWrite() after the open
   temp2Open : BOOLEAN, \* tempFile2 (tempFile3) of the repair
   vid2Open : BOOLEAN,  \* videoFile reopened by the repair
   avail2 : BOOLEAN,    \* videoFile.availableForWrite() after the repair
   availHdr : BOOLEAN,  \* videoFile.availableForWrite() in writeAVIHeader
   hdrWritten : ShortHeaderWrites \cup {AVI_HEADER_SIZE}]

\* (the outer braces make TLC list the set once)
StartEnv ==
  {x : x \in {e \in StartAnswers :
     /\ ~e.card => AllTrue(e, {"testOpen"})
     /\ ~(e.card /\ e.testOpen) => AllTrue(e, {"tempOpen"})
     /\ ~(e.card /\ e.testOpen /\ e.tempOpen) => AllTrue(e, {"vidOpen"})
     /\ ~(e.card /\ e.testOpen /\ e.tempOpen /\ e.vidOpen) =>
          AllTrue(e, {"avail", "availHdr"}) /\ e.hdrWritten = AVI_HEADER_SIZE
     /\ e.avail => AllTrue(e, {"temp2Open", "vid2Open", "avail2"})
     /\ ~e.temp2Open => AllTrue(e, {"vid2Open"})
     /\ ~(e.temp2Open /\ e.vid2Open) => AllTrue(e, {"avail2"})
     /\ ~(e.temp2Open /\ e.vid2Open /\ e.avail2) =>
          AllTrue(e, {"availHdr"}) /\ e.hdrWritten = AVI_HEADER_SIZE
     /\ ~e.availHdr => e.hdrWritten = AVI_HEADER_SIZE}}

\* the answers of a card that does not fail
StartHealthy ==
  {x : x \in {e \in StartEnv :
     /\ AllTrue(e, {"card", "testOpen", "tempOpen", "vidOpen", "avail",
                    "temp2Open", "vid2Open", "avail2", "availHdr"})
     /\ e.hdrWritten = AVI_HEADER_SIZE}}

----------------------------------------------------------------------------
(* writeAVIHeader *)

\* the values the header buffer holds at the three patched offsets:
\* aviFileSize (0), the global frameCount, and length (0)
\* the sizes writeAVIHeader declares for the lists and chunks of the header
hdrlSize == 8 + 56 + 8 + 8 + 40
avihSize == 56
strlSize == 8 + 56 + 40
strhSize == 56
strfSize == 40

\* the tags writeAVIHeader puts in the header: where the tag is, the size
\* stored in the four bytes after it, and the list the chunk lies in
HeaderChunks ==
  {[tag |-> "RIFF", at |-> 0, size |-> 0, isList |-> TRUE, in |-> "file"],
   [tag |-> "hdrl", at |-> 12, size |-> hdrlSize, isList |-> TRUE,
    in |-> "RIFF"],
   [tag |-> "avih", at |-> 24, size |-> avihSize, isList |-> FALSE,
    in |-> "hdrl"],
   [tag |-> "strl", at |-> 88, size |-> strlSize, isList |-> TRUE,
    in |-> "hdrl"],
   [tag |-> "strh", at |-> 100, size |-> strhSize, isList |-> FALSE,
    in |-> "strl"],
   [tag |-> "strf", at |-> 156, size |-> strfSize, isList |-> FALSE,
    in |-> "strl"]}

HeaderFields(m) ==
  [o \in PatchOffsets |->
     IF o = TotalFramesOff THEN U32(m.frameCount) ELSE U32(0)]

writeAVIHeader(m, e) ==
  IF ~m.videoFile.open THEN m
  ELSE IF ~e.availHdr THEN [Fault(m) EXCEPT !.tr.hdr = "refused"]
  ELSE
    LET w == WriteVideoFile(m, e.hdrWritten, HeaderFields(m), "header") IN
    IF e.hdrWritten # AVI_HEADER_SIZE
      THEN [w EXCEPT !.tr.hdr = "short", !.tr.faults = @ + 1]
      \* the padding write is of 512 - AVI_HEADER_SIZE = 0 bytes; then flush
      ELSE [Touch(Touch(w)) EXCEPT !.tr.hdr = "ok"]

----------------------------------------------------------------------------
(* startRecording *)

\* close, remove, create again and reopen: the repair of an unwritable file
\* and the emptying of a file that is not empty
StartRecreate(m, e, checkAvail) ==
  LET name == m.currentVideoName
      c == RemoveIfExists(CloseVideoFile(m), name)
  IN
  IF ~e.temp2Open THEN [ok |-> FALSE, m |-> Fault(c)]
  ELSE
    LET t == CreateEmpty(c, name) IN
    IF ~e.vid2Open THEN [ok |-> FALSE, m |-> OpenVideoFileFails(t)]
    ELSE
      LET v == OpenVideoFile(t, name) IN
      IF checkAvail /\ ~e.avail2
        THEN [ok |-> FALSE, m |-> CloseVideoFile(Fault(v))]
        ELSE [ok |-> TRUE, m |-> v]

\* from the header write to the end of startRecording
StartFinish(m, e) ==
  LET h == writeAVIHeader(m, e)
      \* a file shorter than 512 bytes is flushed and reported, no more
      f == IF SizeOfVideoFile(h) < 512 THEN Touch(Touch(h)) ELSE Touch(h)
  IN [f EXCEPT !.frameCount = 0, !.startTime = f.millis,
               !.isRecording = TRUE]

\* a start that gives every file the same name
VideoName_Fixed(t) == 1

\* "/video_" + String(millis()) + ".avi"
VideoName(t) == t

\* startRecording past its first line
StartSession(m, e) ==
  LET t == m.millis + 1
      name == VideoName(t)
      \* printMemoryInfo, checkSDCardStatus, then the name from millis()
      m0 == Touch([m EXCEPT !.millis = t, !.currentVideoName = name])
  IN
  IF ~e.card THEN Fault(m0)
  ELSE IF ~e.testOpen THEN Fault(m0)
  ELSE
    LET m1 == RemoveIfExists(Touch(m0), name) IN
    IF ~e.tempOpen THEN Fault(m1)
    ELSE
      LET m2 == CreateEmpty(m1, name) IN
      IF ~e.vidOpen THEN OpenVideoFileFails(m2)
      ELSE
        LET m3 == OpenVideoFile(m2, name)
            r1 == IF e.avail THEN [ok |-> TRUE, m |-> Touch(m3)]
                  ELSE StartRecreate(Fault(m3), e, TRUE)
        IN
        IF ~r1.ok THEN r1.m
        ELSE
          LET r2 == IF SizeOfVideoFile(r1.m) # 0
                      THEN StartRecreate(r1.m, e, FALSE)
                      ELSE [ok |-> TRUE, m |-> r1.m]
          IN IF ~r2.ok THEN r2.m ELSE StartFinish(r2.m, e)

\* startRecording without if (isRecording) return;
startRecording_NoGuard(m, e) == StartSession(m, e)

\* if (isRecording) return; and then the rest
startRecording(m, e) == IF m.isRecording THEN m ELSE StartSession(m, e)

----------------------------------------------------------------------------
(* updateAVIHeader and stopRecording *)

\* the three patch writes are made one after the other and their results
\* are not looked at: the card takes the first `landed` of them
StopAnswers ==
  [avail : BOOLEAN,  \* videoFile.availableForWrite() in updateAVIHeader
   landed : 0..3]

StopEnv ==
  {x : x \in {e \in StopAnswers : ~e.avail => e.landed = 3}}

StopHealthy == {x : x \in {e \in StopEnv : e.avail /\ e.landed = 3}}

\* the patch write without its seek: the four bytes go to the end of the file
PatchField_NoSeek(m, off, v, lands) ==
  LET s == SeekVideoFile(m, SizeOfVideoFile(m)) IN
  IF lands
    THEN WriteVideoFile(s, 4, [o \in PatchOffsets |-> v], "patch")
    ELSE [Fault(s) EXCEPT !.tr.patch = "faulted"]

\* videoFile.seek(off); videoFile.write(&v, 4), the result not looked at
PatchField(m, off, v, lands) ==
  LET s == SeekVideoFile(m, off) IN
  IF lands
    THEN WriteVideoFile(s, 4, [o \in PatchOffsets |-> v], "patch")
    ELSE [Fault(s) EXCEPT !.tr.patch = "faulted"]

\* updateAVIHeader storing the frame count at offset 48 only
updateAVIHeader_NoLength(m, e) ==
  IF ~m.videoFile.open THEN [m EXCEPT !.tr.patch = "nofile"]
  ELSE IF ~e.avail THEN [Fault(m) EXCEPT !.tr.patch = "skipped"]
  ELSE
    LET m0 == [Touch(m) EXCEPT !.tr.patch = "ok",
                               !.tr.steps = Append(@, "patch")]
        riffSize == U32(SizeOfVideoFile(m0) - 8)
        a == PatchField(m0, RiffSizeOff, riffSize, e.landed >= 1)
        b == PatchField(a, TotalFramesOff, U32(m0.frameCount), e.landed >= 2)
    IN Touch(b)

updateAVIHeader(m, e) ==
  IF ~m.videoFile.open THEN [m EXCEPT !.tr.patch = "nofile"]
  ELSE IF ~e.avail THEN [Fault(m) EXCEPT !.tr.patch = "skipped"]
  ELSE
    LET m0 == [Touch(m) EXCEPT !.tr.patch = "ok",
                               !.tr.steps = Append(@, "patch")]
        \* seek(4) comes first, then size() - 8 in 32 bits
        riffSize == U32(SizeOfVideoFile(m0) - 8)
        a == PatchField(m0, RiffSizeOff, riffSize, e.landed >= 1)
        b == PatchField(a, TotalFramesOff, U32(m0.frameCount), e.landed >= 2)
        c == PatchField(b, StrhLengthOff, U32(m0.frameCount), e.landed >= 3)
    IN Touch(c)

\* isRecording = false
GoIdle(m) == [m EXCEPT !.isRecording = FALSE, !.tr.steps = Append(@, "idle")]

\* stopRecording closing the file only when the header was patched
StopSession_CloseIfPatched(m, e) ==
  LET u == updateAVIHeader(GoIdle(m), e)
      c == IF u.videoFile.open /\ u.tr.patch = "ok"
             THEN CloseVideoFile(Touch(u)) ELSE u
  IN Touch(c)

\* stopRecording closing the file before it patches the header, and going
\* Idle last
StopSession_CloseFirst(m, e) ==
  LET c == IF m.videoFile.open THEN CloseVideoFile(Touch(m)) ELSE m
      u == updateAVIHeader(c, e)
  IN Touch(GoIdle(u))

\* stopRecording past its first line
StopSession(m, e) ==
  LET u == updateAVIHeader(GoIdle(m), e)
      \* if (videoFile) { flush; close }
      c == IF u.videoFile.open THEN CloseVideoFile(Touch(u)) ELSE u
  \* then the file is looked up and opened for reading, to print its size
  IN Touch(c)

\* stopRecording without if (!isRecording) return;
stopRecording_NoGuard(m, e) == StopSession(m, e)

\* if (!isRecording) return; and then the rest
stopRecording(m, e) == IF ~m.isRecording THEN m ELSE StopSession(m, e)

----------------------------------------------------------------------------
(* captureFrame *)

\* what esp_camera_fb_get() hands out: nothing, or a buffer of len bytes
Frames ==
  {[got |-> FALSE, len |-> 0]} \cup
  {[got |-> TRUE, len |-> n] : n \in {0} \cup FrameLens}

\* what videoFile.write(fb->buf, fb->len) returns: fb->len, or 0 from a card
\* that takes nothing
WriteResults == {"full", "none"}

Written(len, wr) == IF wr = "full" THEN len ELSE 0

CaptureAnswers ==
  [tempOpenA : BOOLEAN, \* tempFile, the handle being invalid
   vidOpenA : BOOLEAN,  \* videoFile reopened, the handle being invalid
   avail : BOOLEAN,     \* videoFile.availableForWrite()
   tempOpenB : BOOLEAN, \* tempFile, the file being unwritable
   vidOpenB : BOOLEAN,  \* videoFile reopened, the file being unwritable
   avail2 : BOOLEAN,    \* videoFile.availableForWrite() after the reopen
   root : BOOLEAN,      \* SD_MMC.exists("/")
   frame : Frames,
   wr : WriteResults]

CaptureEnv ==
  {x : x \in {e \in CaptureAnswers :
     /\ ~e.tempOpenA => AllTrue(e, {"vidOpenA"})
     /\ ~(e.tempOpenA /\ e.vidOpenA) => AllTrue(e, {"avail"})
     /\ e.avail => AllTrue(e, {"tempOpenB", "vidOpenB", "avail2"})
     /\ ~e.tempOpenB => AllTrue(e, {"vidOpenB"})
     /\ ~(e.tempOpenB /\ e.vidOpenB) => AllTrue(e, {"avail2"})
     /\ ~(e.tempOpenA /\ e.vidOpenA /\ e.tempOpenB /\ e.vidOpenB /\ e.avail2)
          => AllTrue(e, {"root"})
     /\ ~(e.tempOpenA /\ e.vidOpenA /\ e.tempOpenB /\ e.vidOpenB /\ e.avail2
          /\ e.root) => e.frame = [got |-> FALSE, len |-> 0]
     /\ ~(e.frame.got /\ e.frame.len > 0) => e.wr = "full"}}

CaptureHealthy ==
  {x : x \in {e \in CaptureEnv :
     /\ AllTrue(e, {"tempOpenA", "vidOpenA", "avail", "tempOpenB", "vidOpenB",
                    "avail2", "root"})
     /\ e.wr = "full"}}

\* remove the file, create it again and reopen it; closeFirst and availOk
\* belong to the unwritable case
CaptureRecreate(m, closeFirst, tempOk, vidOk, availOk) ==
  LET name == m.currentVideoName
      c == RemoveIfExists(IF closeFirst THEN CloseVideoFile(m) ELSE m, name)
      d == [c EXCEPT !.tr.recreated = TRUE]
  IN
  IF ~tempOk THEN [ok |-> FALSE, m |-> Fault(d)]
  ELSE
    LET t == CreateEmpty(d, name) IN
    IF ~vidOk THEN [ok |-> FALSE, m |-> OpenVideoFileFails(t)]
    ELSE
      LET v == OpenVideoFile(t, name) IN
      IF ~availOk
        THEN [ok |-> FALSE, m |-> CloseVideoFile(Fault(v))]
        ELSE [ok |-> TRUE, m |-> v]

\* captureFrame without its periodic flush
FlushDue_Never(count) == FALSE

\* if (frameCount % 10 == 0)
FlushDue(count) == count % FlushEvery = 0

\* the end of captureFrame counting a frame whatever the write returned
CaptureWrite_CountShort(m, e) ==
  IF ~e.frame.got THEN [m EXCEPT !.tr.fb = "null"]
  ELSE IF e.frame.len = 0 THEN [Touch(m) EXCEPT !.tr.fb = "empty"]
  ELSE
    LET len == e.frame.len
        written == Written(len, e.wr)
        w == [WriteVideoFile(m, written, [o \in PatchOffsets |-> Opaque],
                             "frame") EXCEPT !.tr.fb = "data",
                                             !.frameCount = @ + 1]
    IN
    IF written # len
      THEN [Flush(w) EXCEPT !.tr.short = TRUE, !.tr.faults = @ + 1]
      ELSE [w EXCEPT !.files[w.videoFile.name].payloads = @ + 1,
                     !.tr.wrote = len]

\* from esp_camera_fb_get() to the end of captureFrame
CaptureWrite(m, e) ==
  IF ~e.frame.got THEN [m EXCEPT !.tr.fb = "null"]
  ELSE
    LET got == [m EXCEPT !.outstanding = @ + 1] IN
    IF e.frame.len = 0
      THEN [got EXCEPT !.outstanding = @ - 1, !.tr.fb = "empty"]
    ELSE
      LET len == e.frame.len
          written == Written(len, e.wr)
          w == [WriteVideoFile(got, written, [o \in PatchOffsets |-> Opaque],
                               "frame") EXCEPT !.tr.fb = "data"]
      IN
      IF written # len
        THEN \* flush, report, esp_camera_fb_return(fb), return
             [Flush(w) EXCEPT !.outstanding = @ - 1, !.tr.short = TRUE,
                              !.tr.faults = @ + 1]
        ELSE
          LET c == [w EXCEPT !.frameCount = @ + 1,
                             !.files[w.videoFile.name].payloads = @ + 1,
                             !.tr.wrote = len]
              f == IF FlushDue(c.frameCount) THEN Flush(c) ELSE c
          IN [f EXCEPT !.outstanding = @ - 1]

\* captureFrame with a stop handler running before it returns
captureFrame_Preempted(m, e) ==
  IF ~m.isRecording THEN m
  ELSE StopSession(CaptureWrite(m, e), CHOOSE x \in StopHealthy : TRUE)

captureFrame(m, e) ==
  IF ~m.isRecording THEN m
  ELSE
    LET name == m.currentVideoName
        rA == IF m.videoFile.open THEN [ok |-> TRUE, m |-> m]
              ELSE CaptureRecreate(m, FALSE, e.tempOpenA, e.vidOpenA, TRUE)
    IN
    IF ~rA.ok THEN rA.m
    ELSE
      LET rB == IF e.avail THEN [ok |-> TRUE, m |-> Touch(rA.m)]
                ELSE CaptureRecreate(Fault(rA.m), TRUE, e.tempOpenB,
                                     e.vidOpenB, e.avail2)
      IN
      IF ~rB.ok THEN rB.m
      ELSE IF ~e.root THEN Fault(rB.m)
      ELSE IF ~Exists(rB.m, name) THEN Touch(Touch(rB.m))
      \* totalBytes() and usedBytes() only feed a warning
      ELSE CaptureWrite(Touch(Touch(Touch(rB.m))), e)

----------------------------------------------------------------------------
(* The HTTP surface: the routes setup() registers and the handlers *)

Routes ==
  {[method |-> "GET", path |-> "/", handler |-> "handleRoot"],
   [method |-> "GET", path |-> "/download", handler |-> "handleDownload"],
   [method |-> "GET", path |-> "/list", handler |-> "handleList"],
   [method |-> "GET", path |-> "/delete", handler |-> "handleDelete"],
   [method |-> "GET", path |-> "/status", handler |-> "handleStatus"],
   [method |-> "GET", path |-> "/start", handler |-> "handleStartRecording"],
   [method |-> "GET", path |-> "/stop", handler |-> "handleStopRecording"],
   [method |-> "GET", path |-> "/stream", handler |-> "handleStream"]}

\* the requests the script of the root page sends
PageRequests ==
  {[method |-> "GET", path |-> "/status"],
   [method |-> "POST", path |-> "/startRecording"],
   [method |-> "POST", path |-> "/stopRecording"],
   [method |-> "GET", path |-> "/list"],
   [method |-> "GET", path |-> "/stream"]}

\* the requests a client can send
Requests ==
  {[method |-> r.method, path |-> r.path] : r \in Routes} \cup PageRequests

\* WebServer's dispatch: the handler registered for method and path
Handler(req) ==
  IF \E r \in Routes : r.method = req.method /\ r.path = req.path
    THEN (CHOOSE r \in Routes :
            r.method = req.method /\ r.path = req.path).handler
    ELSE "notFound"

\* the handlers some request reaches
ReachedHandlers == {Handler(req) : req \in Requests}

Pending(h) == h \in ReachedHandlers

NoResp == [ok |-> FALSE, rec |-> FALSE, frames |-> 0]

\* a status query that reads frameCount and clears it
handleStatus_ReadAndClear(m) ==
  [m |-> [Touch(m) EXCEPT !.frameCount = 0],
   resp |-> [ok |-> TRUE, rec |-> m.isRecording, frames |-> m.frameCount]]

\* handleStatus: the isRecording and frameCount it puts in the JSON
handleStatus(m) ==
  [m |-> Touch(m),
   resp |-> [ok |-> TRUE, rec |-> m.isRecording, frames |-> m.frameCount]]

\* handleStartRecording: startRecording(), then the text chosen by isRecording
handleStartRecording(m, e) ==
  LET r == startRecording(m, e) IN
  [m |-> r, resp |-> [ok |-> r.isRecording, rec |-> r.isRecording,
                      frames |-> r.frameCount]]

\* handleStopRecording: stopRecording(), then always the same text
handleStopRecording(m, e) ==
  LET r == stopRecording(m, e) IN
  [m |-> r, resp |-> [ok |-> TRUE, rec |-> r.isRecording,
                      frames |-> r.frameCount]]

\* handleDelete with ?file=<name>: SD_MMC.remove("/" + name)
handleDelete(m, name) ==
  IF Exists(m, name)
    THEN [m |-> [Touch(m) EXCEPT !.files[name] = NoFile],
          resp |-> [NoResp EXCEPT !.ok = TRUE]]
    ELSE [m |-> Touch(m), resp |-> NoResp]

\* the iterations of for (i = 0; i < 100; i++) in handleStream that get a
\* buffer: the camera gives none at iteration nullAt, which ends the loop
StreamServed(nullAt) == {i \in 0..(StreamFrames - 1) : i < nullAt}

\* handleStream keeping the buffer of its first iteration
handleStream_LeakFirst(m, ready, nullAt) ==
  IF ~ready THEN [m |-> m, resp |-> NoResp]
  ELSE
    LET acquired == Cardinality(StreamServed(nullAt))
        returned == Cardinality(StreamServed(nullAt) \ {0})
    IN [m |-> [m EXCEPT !.outstanding = (@ + acquired) - returned],
        resp |-> [NoResp EXCEPT !.ok = TRUE]]

\* handleStream: every iteration that gets a buffer sends it and returns it
handleStream(m, ready, nullAt) ==
  IF ~ready THEN [m |-> m, resp |-> NoResp]
  ELSE
    LET acquired == Cardinality(StreamServed(nullAt))
        returned == Cardinality(StreamServed(nullAt))
    IN [m |-> [m EXCEPT !.outstanding = (@ + acquired) - returned],
        resp |-> [NoResp EXCEPT !.ok = TRUE]]

\* iterations at which the model lets the camera fail during a stream
StreamNullAt == {0, 1, StreamFrames}

----------------------------------------------------------------------------
(* The steps of loop() *)

\* what is kept of a call once it has returned: the function, whether the
\* session was recording when it was called, and what the call met
CallOf(fn, was, tr, resp) ==
  [fn |-> fn, was |-> was, touched |-> tr.io > 0, failed |-> tr.faults > 0,
   hdr |-> tr.hdr, patch |-> tr.patch, fb |-> tr.fb, short |-> tr.short,
   recreated |-> tr.recreated, closed |-> tr.closed, flushed |-> tr.flushed,
   steps |-> tr.steps, resp |-> resp]

NoCall == CallOf("none", FALSE, NoTrace, NoResp)

NoSess == [full |-> 0, bytes |-> 0, clean |-> FALSE, unflushed |-> 0]

\* the session record after a call that took the machine to m; it is kept
\* from the start of a session until the step after the session's end
NextSess(m) ==
  LET lost == /\ isRecording
              /\ currentVideoName \in Names
              /\ files[currentVideoName].exists
              /\ ~m.files[currentVideoName].exists
  IN
  IF ~isRecording /\ m.isRecording
    THEN [full |-> 0, bytes |-> 0, clean |-> m.tr.faults = 0, unflushed |-> 0]
  ELSE IF ~isRecording
    THEN NoSess
    ELSE [full |-> sess.full + (IF m.tr.wrote > 0 THEN 1 ELSE 0),
          bytes |-> sess.bytes + m.tr.wrote,
          clean |-> sess.clean /\ m.tr.faults = 0 /\ ~lost,
          \* frames appended since the last flush of the file
          unflushed |-> IF m.tr.flushed THEN 0
                        ELSE sess.unflushed + (IF m.tr.wrote > 0 THEN 1 ELSE 0)]

\* 1 when the card failed during the call that took the machine to m
Faulty(m) == IF m.tr.faults > 0 THEN 1 ELSE 0

\* the call returns: the machine becomes m
CommitValue(m, fn, via, resp, next) ==
  /\ faults + Faulty(m) <= limits.faults
  /\ m.millis <= limits.millis
  /\ m.frameCount <= limits.frames
  /\ isRecording' = m.isRecording
  /\ videoFile' = m.videoFile
  /\ frameCount' = m.frameCount
  /\ startTime' = m.startTime
  /\ currentVideoName' = m.currentVideoName
  /\ files' = m.files
  /\ millis' = m.millis
  /\ outstanding' = m.outstanding
  /\ faults' = faults + Faulty(m)
  /\ sess' = NextSess(m)
  /\ call' = IF fn = "none" THEN NoCall
             ELSE CallOf(fn, isRecording, m.tr, resp)
  /\ pc' = next
  /\ UNCHANGED <<cameraInitialized, limits>>

\* the answers the card can still give: once it has failed in limits.faults
\* calls it fails no more
Answers(all, healthy) == IF faults < limits.faults THEN all ELSE healthy

\* a call that does not return to loop() once a storage call has failed
Commit_HaltOnFault(result, fn, via, resp, next) ==
  \E m \in {result} :
    CommitValue(m, fn, via, resp, IF m.tr.faults > 0 THEN "halted" ELSE next)

\* the same, with the result of the call worked out once
Commit(result, fn, via, resp, next) ==
  \E m \in {result} : CommitValue(m, fn, via, resp, next)

\* the state after setup(), but for the bounds of the run
Booted ==
  /\ isRecording = FALSE
  /\ cameraInitialized = TRUE
  /\ videoFile = ClosedHandle
  /\ frameCount = 0
  /\ startTime = 0
  /\ currentVideoName = NoName
  /\ lastTriggerState = HIGH
  /\ files = [n \in Names |-> NoFile]
  /\ millis = 0
  /\ outstanding = 0
  /\ pc = "handleClient"
  /\ call = NoCall
  /\ sess = NoSess
  /\ faults = 0

Init ==
  /\ Booted
  /\ limits = [millis |-> MaxMillis, frames |-> MaxFrames, faults |-> MaxFaults]

\* one session followed past its tenth frame
FlushInit ==
  /\ Booted
  /\ limits = [millis |-> FlushMillis, frames |-> FlushFrames,
               faults |-> FlushFaults]

\* server.handleClient() with no request waiting
NoClient ==
  /\ pc = "handleClient"
  /\ Commit(M, "none", "none", NoResp, "trigger")
  /\ UNCHANGED lastTriggerState

HandleNotFound ==
  /\ pc = "handleClient"
  /\ Pending("notFound")
  /\ Commit(M, "none", "http", NoResp, "trigger")
  /\ UNCHANGED lastTriggerState

HandleRoot ==
  /\ pc = "handleClient"
  /\ Pending("handleRoot")
  /\ Commit(M, "none", "http", [NoResp EXCEPT !.ok = TRUE], "trigger")
  /\ UNCHANGED lastTriggerState

HandleList ==
  /\ pc = "handleClient"
  /\ Pending("handleList")
  /\ Commit(Touch(M), "none", "http", [NoResp EXCEPT !.ok = TRUE],
            "trigger")
  /\ UNCHANGED lastTriggerState

HandleDownload ==
  /\ pc = "handleClient"
  /\ Pending("handleDownload")
  /\ Commit(Touch(M), "none", "http", NoResp, "trigger")
  /\ UNCHANGED lastTriggerState

HandleDelete ==
  /\ pc = "handleClient"
  /\ Pending("handleDelete")
  /\ \E name \in Names :
       LET r == handleDelete(M, name) IN
       Commit(r.m, "handleDelete", "http", r.resp, "trigger")
  /\ UNCHANGED lastTriggerState

HandleStatus ==
  /\ pc = "handleClient"
  /\ Pending("handleStatus")
  /\ LET r == handleStatus(M) IN
     Commit(r.m, "handleStatus", "http", r.resp, "trigger")
  /\ UNCHANGED lastTriggerState

HandleStartRecording ==
  /\ pc = "handleClient"
  /\ Pending("handleStartRecording")
  /\ \E e \in Answers(StartEnv, StartHealthy) :
       LET r == handleStartRecording(M, e) IN
       Commit(r.m, "startRecording", "http", r.resp, "trigger")
  /\ UNCHANGED lastTriggerState

HandleStopRecording ==
  /\ pc = "handleClient"
  /\ Pending("handleStopRecording")
  /\ \E e \in Answers(StopEnv, StopHealthy) :
       LET r == handleStopRecording(M, e) IN
       Commit(r.m, "stopRecording", "http", r.resp, "trigger")
  /\ UNCHANGED lastTriggerState

HandleStream ==
  /\ pc = "handleClient"
  /\ Pending("handleStream")
  /\ \E nullAt \in StreamNullAt :
       LET r == handleStream(M, cameraInitialized, nullAt) IN
       Commit(r.m, "handleStream", "http", r.resp, "trigger")
  /\ UNCHANGED lastTriggerState

\* less than 100 ms since the last look at the pin
TriggerSkip ==
  /\ pc = "trigger"
  /\ Commit(M, "none", "none", NoResp, "capture")
  /\ UNCHANGED lastTriggerState

\* the edge test that toggles on every poll that reads LOW
FallingEdge_LevelLow(last, level) == level = LOW

\* if (lastTriggerState == HIGH && triggerState == LOW)
FallingEdge(last, level) == last = HIGH /\ level = LOW

\* digitalRead(RECORD_TRIGGER_PIN) gives level
TriggerPoll ==
  /\ pc = "trigger"
  /\ \E level \in {HIGH, LOW} :
       /\ lastTriggerState' = level
       /\ IF FallingEdge(lastTriggerState, level)
            THEN IF isRecording
                   THEN \E e \in Answers(StopEnv, StopHealthy) :
                          Commit(stopRecording(M, e), "stopRecording",
                                 "trigger", NoResp, "capture")
                   ELSE \E e \in Answers(StartEnv, StartHealthy) :
                          Commit(startRecording(M, e), "startRecording",
                                 "trigger", NoResp, "capture")
            ELSE Commit(M, "digitalRead", "trigger", NoResp, "capture")

\* the last step of loop() calling captureFrame twice
LoopCapture_Twice ==
  /\ pc = "capture"
  /\ IF isRecording
       THEN \E e \in Answers(CaptureEnv, CaptureHealthy) :
              /\ videoFile.open => e.tempOpenA /\ e.vidOpenA
              /\ Commit(captureFrame(captureFrame(M, e), e), "captureFrame",
                        "loop", NoResp, "handleClient")
       ELSE Commit(M, "none", "none", NoResp, "handleClient")
  /\ UNCHANGED lastTriggerState

\* if (isRecording) { captureFrame(); delay(50); }
LoopCapture ==
  /\ pc = "capture"
  /\ IF isRecording
       THEN \E e \in Answers(CaptureEnv, CaptureHealthy) :
              /\ videoFile.open => e.tempOpenA /\ e.vidOpenA
              /\ Commit(captureFrame(M, e), "captureFrame", "loop", NoResp,
                        "handleClient")
       ELSE Commit(M, "none", "none", NoResp, "handleClient")
  /\ UNCHANGED lastTriggerState

Next ==
  \/ NoClient
  \/ HandleNotFound
  \/ HandleRoot
  \/ HandleList
  \/ HandleDownload
  \/ HandleDelete
  \/ HandleStatus
  \/ HandleStartRecording
  \/ HandleStopRecording
  \/ HandleStream
  \/ TriggerSkip
  \/ TriggerPoll
  \/ LoopCapture

Spec == Init /\ [][Next]_vars

FlushSpec == FlushInit /\ [][Next]_vars

\* loop() is called again and again, and millis() advances, so that the
\* 100 ms between two polls of the pin pass
LiveSpec == Init /\ [][Next]_vars /\ WF_vars(Next) /\ SF_vars(TriggerPoll)

----------------------------------------------------------------------------
(* Properties of the recording session *)

\* the last step was a stopRecording call made while Recording that ended a
\* session in which no storage call failed and the file was not deleted
CleanStop == call.fn = "stopRecording" /\ call.was /\ sess.clean

\* the file the session writes
SessionFile == files[currentVideoName]

\* C1: when the frame write of captureFrame comes back short while
\* Recording, the session is Idle when captureFrame returns.
C1_ShortWriteForcesIdle ==
  (call.fn = "captureFrame" /\ call.was /\ call.short) => ~isRecording

\* C2: after a start that succeeded, N full frame writes and a stop with no
\* storage fault, the fields at offsets 48 and 136 both hold N and the field
\* at offset 4 holds the file size minus 8.
C2_PatchedFields ==
  CleanStop =>
    /\ SessionFile.fld[TotalFramesOff] = U32(sess.full)
    /\ SessionFile.fld[StrhLengthOff] = U32(sess.full)
    /\ SessionFile.size >= 8
    /\ SessionFile.fld[RiffSizeOff] = U32(SessionFile.size - 8)

\* a fault-free session of MaxFrames full frames has been stopped
C2_Witness ==
  /\ CleanStop
  /\ call.patch = "ok"
  /\ sess.full = MaxFrames
  /\ SessionFile.payloads = MaxFrames

\* C3: after the stop of a fault-free session the file is 512 bytes plus the
\* bytes of the frames appended; with no frame it is 512 bytes, its RIFF
\* size field is 504 and its frame-count fields are 0.
C3_FileSize ==
  CleanStop =>
    /\ SessionFile.size = 512 + sess.bytes
    /\ sess.full = 0 =>
         /\ SessionFile.size = 512
         /\ SessionFile.fld[RiffSizeOff] = U32(504)
         /\ SessionFile.fld[TotalFramesOff] = U32(0)
         /\ SessionFile.fld[StrhLengthOff] = U32(0)

\* a fault-free session with no frame has been stopped, and the card also
\* holds the file of a session that appended frames
C3_Witness ==
  /\ CleanStop
  /\ sess.full = 0
  /\ SessionFile.size = 512
  /\ \E n \in Names :
       /\ n # currentVideoName
       /\ files[n].payloads > 0
       /\ files[n].size > 512
       /\ files[n].fld[RiffSizeOff] = U32(files[n].size - 8)

\* C4: between the steps of loop(), videoFile is open if and only if the
\* session is Recording.
C4_HandleOpenIffRecording == videoFile.open <=> isRecording

\* C5: when a step of startRecording fails (no card, the test file, the
\* video file, or the header write refused or short), the session is Idle
\* when startRecording returns.
C5_FailedStartIsIdle ==
  (/\ call.fn = "startRecording"
   /\ ~call.was
   /\ call.failed
   /\ call.hdr # "ok") => ~isRecording

\* C6: startRecording called while Recording changes none of isRecording,
\* frameCount, startTime, currentVideoName, videoFile and the files, and
\* makes no storage call.
C6_StartWhileRecordingIsNoOp ==
  [][(isRecording /\ call'.fn = "startRecording") =>
       /\ UNCHANGED <<isRecording, frameCount, startTime, currentVideoName,
                      videoFile, files>>
       /\ ~call'.touched]_vars

\* startRecording has been called in a session that had appended a frame
C6_Witness ==
  /\ call.fn = "startRecording"
  /\ call.was
  /\ isRecording
  /\ frameCount > 0

\* C7: stopRecording called while Idle makes no storage call and changes
\* none of isRecording, frameCount and currentVideoName.
C7_StopWhileIdleIsNoOp ==
  [][(~isRecording /\ call'.fn = "stopRecording") =>
       /\ UNCHANGED <<isRecording, frameCount, currentVideoName, videoFile,
                      files>>
       /\ ~call'.touched]_vars

\* stopRecording has been called while Idle, after a session
C7_Witness ==
  /\ call.fn = "stopRecording"
  /\ ~call.was
  /\ ~isRecording
  /\ currentVideoName \in Names

\* C8: when stopRecording, called while Recording, returns, the session is
\* Idle and videoFile is closed, whatever became of the header patch.
C8_StopClosesFile ==
  (call.fn = "stopRecording" /\ call.was) =>
    /\ ~isRecording
    /\ ~videoFile.open
    /\ call.patch \in {"ok", "skipped", "faulted"} => call.closed

\* stopRecording has closed the file after a patch write failed
C8_Witness ==
  /\ call.fn = "stopRecording"
  /\ call.was
  /\ call.patch = "faulted"
  /\ call.closed
  /\ ~videoFile.open

\* C9: when captureFrame runs while Recording and the camera gives no
\* buffer or an empty one, frameCount, isRecording and the files are
\* unchanged.
C9_NoFrameChangesNothing ==
  [][(/\ isRecording
      /\ call'.fn = "captureFrame"
      /\ call'.fb \in {"null", "empty"}) =>
       UNCHANGED <<frameCount, isRecording, files>>]_vars

\* C10: no camera buffer is outstanding between the steps of loop().
C10_NoBufferOutstanding == outstanding = 0

\* captureFrame has returned from a short write, the buffer released
C10_Witness ==
  /\ call.fn = "captureFrame"
  /\ call.fb = "data"
  /\ call.short
  /\ outstanding = 0

\* the last step was the trigger step of loop() and it made a call
Toggled == pc = "capture" /\ call.fn \in {"startRecording", "stopRecording"}

\* C11: a poll of the trigger toggles the session if and only if the level
\* of the poll before was HIGH and the level it reads is LOW.
C11_ToggleOnFallingEdgeOnly ==
  [][pc = "trigger" =>
       (Toggled' <=> (lastTriggerState = HIGH /\ lastTriggerState' = LOW))]_vars

\* a second falling edge, after the pin went back to HIGH, has toggled the
\* session off
C11_Witness ==
  /\ Toggled
  /\ call.fn = "stopRecording"
  /\ call.was
  /\ lastTriggerState = LOW
  /\ frameCount > 0

\* the session is Recording and its file begins with the whole header
HeaderInPlace ==
  /\ isRecording
  /\ currentVideoName \in Names
  /\ SessionFile.exists
  /\ SessionFile.hdr = AVI_HEADER_SIZE

C15_FlushEveryTenFrames ==
  /\ isRecording => sess.unflushed <= 10
  /\ (call.fn = "captureFrame" /\ call.fb = "data" /\ ~call.short) =>
       (call.flushed <=> frameCount % 10 = 0)

\* the tenth frame of a session has been appended and flushed
C15_Witness ==
  /\ isRecording
  /\ call.fn = "captureFrame"
  /\ call.flushed
  /\ ~call.short
  /\ frameCount = 10
  /\ sess.full = 10
  /\ sess.unflushed = 0

\* the last step was a startRecording call, made while Idle, in which a step
\* failed: no card, the test file, the video file, or the header write
FailedStart ==
  /\ call.fn = "startRecording"
  /\ ~call.was
  /\ call.failed
  /\ call.hdr # "ok"

\* C16: frameCount is set to 0 only on the way from Idle to Recording at the
\* end of a successful startRecording; while Recording it never decreases;
\* stopRecording and a failed startRecording leave it as it is.
C16_FrameCountReset ==
  [][/\ (frameCount # 0 /\ frameCount' = 0) =>
          /\ call'.fn = "startRecording"
          /\ ~isRecording /\ isRecording'
          /\ ~FailedStart'
     /\ (isRecording /\ isRecording') => frameCount' >= frameCount
     /\ call'.fn = "stopRecording" => frameCount' = frameCount
     /\ FailedStart' => frameCount' = frameCount]_vars

\* the calls server.handleClient() can make
HandlerCalls ==
  {"none", "handleDelete", "handleStatus", "startRecording", "stopRecording",
   "handleStream"}

\* C17 as first stated: every iteration of loop() polls the trigger pin once
\* between the HTTP requests and the capture.
C17_PollInEveryIteration ==
  [][pc = "trigger" =>
       call'.fn \in {"digitalRead", "startRecording", "stopRecording"}]_vars

\* C17: an iteration of loop() serves the HTTP requests, then polls the
\* trigger pin at most once (not at all within 100 ms of the last poll) and
\* toggles on a falling edge, then calls captureFrame once if and only if the
\* session is Recording at that point; so frameCount grows by at most one in
\* an iteration.
C17_LoopOrder ==
  [][/\ pc = "handleClient" => (pc' = "trigger" /\ call'.fn \in HandlerCalls)
     /\ pc = "trigger" =>
          /\ pc' = "capture"
          /\ call'.fn \in {"none", "digitalRead", "startRecording",
                            "stopRecording"}
          /\ call'.fn \in {"startRecording", "stopRecording"} =>
               (lastTriggerState = HIGH /\ lastTriggerState' = LOW)
     /\ pc = "capture" =>
          /\ pc' = "handleClient"
          /\ call'.fn = (IF isRecording THEN "captureFrame" ELSE "none")
     /\ frameCount' > frameCount =>
          (pc = "capture" /\ frameCount' = frameCount + 1)]_vars

\* an iteration has ended with the last frame of the session appended, the
\* pin being held LOW
C17_Witness ==
  /\ pc = "handleClient"
  /\ call.fn = "captureFrame"
  /\ call.fb = "data"
  /\ ~call.short
  /\ frameCount = MaxFrames
  /\ lastTriggerState = LOW

\* the last step polled the trigger pin
Polled ==
  /\ pc = "capture"
  /\ call.fn \in {"digitalRead", "startRecording", "stopRecording"}

\* C18: whatever storage and camera faults occur, every call returns to
\* loop() and loop() keeps iterating: again and again the HTTP requests are
\* served and the trigger pin is polled.
C18_LoopKeepsIterating == ([]<>(pc = "trigger")) /\ ([]<>Polled)

\* after a call in which the card failed, a later iteration has polled the pin
\* and seen a falling edge
C18_Witness ==
  /\ faults > 0
  /\ Polled
  /\ call.fn = "startRecording"
  /\ ~call.failed
  /\ isRecording

\* the files no session is writing: those of the sessions that have ended
Finished == {n \in Names : files[n].exists /\ (n # currentVideoName \/ ~isRecording)}

\* C19: a file that stopRecording has patched and closed, as every file of a
\* session that has ended, is not written, truncated or removed by a later
\* startRecording, stopRecording or captureFrame: it changes only in a
\* delete request.
C19_FinishedFileIsKept ==
  [][\A n \in Finished :
       files'[n] # files[n] => call'.fn = "handleDelete"]_vars

\* a second session is appending frames while the file of the first, patched
\* and closed by stopRecording, is on the card
C19_Witness ==
  /\ isRecording
  /\ call.fn = "captureFrame"
  /\ call.fb = "data"
  /\ frameCount > 0
  /\ \E n \in Finished :
       /\ n # currentVideoName
       /\ files[n].fld[TotalFramesOff].k = "val"
       /\ files[n].fld[TotalFramesOff] # U32(0)

\* C20: handleStatus changes neither isRecording, frameCount,
\* currentVideoName, the file handle nor any file, and the isRecording and
\* frameCount it reports are those of the session when it is called, Idle
\* or Recording.
C20_StatusIsPureRead ==
  [][call'.fn = "handleStatus" =>
       /\ UNCHANGED <<isRecording, frameCount, currentVideoName, videoFile,
                      files>>
       /\ call'.resp.rec = isRecording
       /\ call'.resp.frames = frameCount]_vars

\* the status has been asked for in a session that has appended frames
C20_Witness ==
  /\ call.fn = "handleStatus"
  /\ call.resp.ok
  /\ isRecording
  /\ frameCount > 0
  /\ call.resp.rec
  /\ call.resp.frames = frameCount

\* C21: stopRecording called while Recording goes Idle first, then patches
\* the header with frameCount, then flushes and closes the file (the patch
\* being left out when the file refuses it or the handle is invalid), and
\* appends no frame on the way.
C21_StopOrder ==
  [][(call'.fn = "stopRecording" /\ isRecording) =>
       /\ call'.steps \in {<<"idle", "patch", "close">>, <<"idle", "close">>,
                            <<"idle">>}
       /\ (videoFile.open /\ call'.patch = "ok") =>
            call'.steps = <<"idle", "patch", "close">>
       /\ frameCount' = frameCount
       /\ call'.fb = "none"
       /\ files'[currentVideoName].payloads = files[currentVideoName].payloads
       /\ (call'.patch = "ok" /\ ~call'.failed
             /\ files[currentVideoName].exists) =>
            files'[currentVideoName].fld[TotalFramesOff] = U32(frameCount)]_vars

\* a session with frames in its file has been stopped, the header patched
C21_Witness ==
  /\ CleanStop
  /\ call.steps = <<"idle", "patch", "close">>
  /\ frameCount > 0
  /\ SessionFile.payloads = frameCount

\* the calls that read and write isRecording, frameCount and videoFile
SessionCalls == {"startRecording", "stopRecording", "captureFrame"}

\* C22: isRecording, frameCount and the file handle change only in a call of
\* startRecording, stopRecording or captureFrame made from loop(): the HTTP
\* handlers run in the handleClient step, the trigger's call in the poll
\* step and captureFrame in the capture step, each from beginning to end, so
\* that captureFrame holds no start, stop or header patch and a start or stop
\* holds no frame append.
C22_SingleLoopPath ==
  [][/\ (isRecording' # isRecording \/ frameCount' # frameCount
           \/ videoFile' # videoFile) => call'.fn \in SessionCalls
     /\ call'.fn = "captureFrame" =>
          /\ pc = "capture"
          /\ call'.hdr = "none"
          /\ call'.patch = "none"
          /\ \A i \in DOMAIN call'.steps : call'.steps[i] = "close"
          /\ isRecording' = isRecording
     /\ call'.fn \in {"startRecording", "stopRecording"} =>
          /\ pc \in {"handleClient", "trigger"}
          /\ call'.fb = "none"
          /\ frameCount' \in {frameCount, 0}
     /\ call'.fn \in HandlerCalls \ ({"none"} \cup SessionCalls) =>
          pc = "handleClient"]_vars

\* a stop request has been served by handleClient in a session that has
\* appended frames
C22_Witness ==
  /\ pc = "trigger"
  /\ call.fn = "stopRecording"
  /\ call.was
  /\ call.patch = "ok"
  /\ frameCount > 0

\* C23: the response of the start request says success exactly when no step
\* of startRecording failed; a start whose header write was refused or came
\* back short is answered as a failure.
C23_StartResponse ==
  (/\ pc = "trigger"
   /\ call.fn = "startRecording"
   /\ ~call.was) => (call.resp.ok <=> ~FailedStart)

\* C24: while Recording, frameCount is the number of captureFrame calls of
\* the session whose write returned the whole payload: a call adds exactly 1
\* when the write was full and nothing when it was short, and after a short
\* write the buffer is given back and the file holds no payload more than
\* before.
C24_CountIsFullWrites ==
  [][/\ isRecording' => frameCount' = sess'.full
     /\ (isRecording /\ call'.fn = "captureFrame") =>
          /\ frameCount' =
               frameCount + (IF call'.fb = "data" /\ ~call'.short THEN 1 ELSE 0)
          /\ outstanding' = outstanding
          /\ call'.short =>
               /\ call'.fb = "data"
               /\ files'[currentVideoName].payloads <=
                    files[currentVideoName].payloads]_vars

\* a write has come back short in a session that had appended a frame
C24_Witness ==
  /\ isRecording
  /\ call.fn = "captureFrame"
  /\ call.short
  /\ frameCount > 0
  /\ frameCount = sess.full
  /\ outstanding = 0

\* C25: a falling edge seen by the poll makes exactly one call, stopRecording
\* when the session is Recording and startRecording when it is Idle; when
\* that startRecording fails the session is Idle afterwards, so that the next
\* falling edge calls startRecording again.
C25_EdgeCallsOnce ==
  [][(pc = "trigger" /\ lastTriggerState = HIGH /\ lastTriggerState' = LOW) =>
       /\ call'.fn = (IF isRecording THEN "stopRecording" ELSE "startRecording")
       /\ call'.was = isRecording
       /\ (~isRecording /\ call'.failed /\ call'.hdr # "ok") =>
            ~isRecording']_vars

\* the first byte after what a chunk declares as its own
ChunkEnd(c) == c.at + 8 + c.size

\* the chunks of the header that lie in list l
ChildrenOf(l) == {c \in HeaderChunks : c.in = l.tag}

\* C26: in the header that writeAVIHeader has written, no chunk's declared
\* extent reaches past the tag of the next chunk of the same list, and each
\* LIST's declared size ends where its last child ends.
C26_HeaderChunksConsistent ==
  (call.hdr = "ok") =>
    /\ \A c, d \in HeaderChunks :
         (c.in = d.in /\ c.at < d.at) => ChunkEnd(c) <= d.at
    /\ \A l \in {c \in HeaderChunks : c.isList /\ c.tag # "RIFF"} :
         \A c \in ChildrenOf(l) :
           /\ l.at + 12 <= c.at
           /\ ChunkEnd(c) <= ChunkEnd(l)
           /\ \E last \in ChildrenOf(l) : ChunkEnd(last) = ChunkEnd(l)

\* C27: whenever updateAVIHeader works out the RIFF size as size() - 8, the
\* file is at least 512 bytes long, so that the subtraction in 32 bits does
\* not wrap around.
C27_RiffSizeNoWrap ==
  [][(call'.fn = "stopRecording" /\ call'.patch = "ok") =>
       /\ videoFile.open
       /\ videoFile.name \in Names
       /\ files[videoFile.name].size >= AVI_HEADER_SIZE]_vars

\* C28: while the session is Recording, the file named currentVideoName is
\* not removed, by a delete request or otherwise: it is on the card until
\* stopRecording returns.
C28_RecordedFileIsKept ==
  [][(isRecording /\ isRecording' /\ Exists(M, currentVideoName)) =>
       files'[currentVideoName].exists]_vars

\* C29: a startRecording call in which a step fails leaves isRecording,
\* frameCount, startTime and currentVideoName as they were before the call.
C29_FailedStartChangesNothing ==
  [][(/\ ~isRecording
      /\ call'.fn = "startRecording"
      /\ call'.failed
      /\ call'.hdr # "ok") =>
       UNCHANGED <<isRecording, frameCount, startTime, currentVideoName>>]_vars

\* what the start and the stop button of the root page send
StartButton == [method |-> "POST", path |-> "/startRecording"]
StopButton == [method |-> "POST", path |-> "/stopRecording"]

\* C30: the requests the root page sends for starting and stopping match
\* routes registered in setup: whenever handleClient serves a request, the
\* start button's request is dispatched to handleStartRecording and the stop
\* button's to handleStopRecording.
C30_PageButtonsAreRouted ==
  (pc = "handleClient") =>
    /\ {StartButton, StopButton} \subseteq PageRequests
    /\ Handler(StartButton) = "handleStartRecording"
    /\ Handler(StopButton) = "handleStopRecording"

====
